---------------------------- MODULE Spec2Model ----------------------------
(***************************************************************************)
(* Channel-scan state machine of the IEEE 802.15.4 MAC sublayer            *)
(* (wireless/ieee802154/mac802154_scan.c).                                 *)
(*                                                                         *)
(* Processes:                                                              *)
(*   - the callers of mac802154_req_scan (set Callers), each stepping      *)
(*     through the function statement by statement;                        *)
(*   - the MAC timer worker, which runs mac802154_scantimeout and, from    *)
(*     it, mac802154_scanfinish;                                           *)
(*   - the frame-reception path, which appends PAN descriptors.            *)
(* Program counters are named after the source line about to be executed.  *)
(***************************************************************************)
EXTENDS Integers, Sequences, FiniteSets, TLC

(***************************************************************************)
(* Bounds of the model and constants of the program                        *)
(***************************************************************************)

\* req->duration > 15, req->numchan > 15 (line 90)
MaxDuration == 15

MaxNumChan == 15

\* IEEE802154_BASE_SUPERFRAME_DURATION, in symbols (line 154)
BaseSuperframeDuration == 960

\* IEEE802154_PANID_UNSPEC (line 144)
PanIdUnspec == 65535

\* capacity of priv->pandescs, scaled down
MaxDesc == 1

\* priv->scanindex is a fixed-width unsigned counter (line 257 increments
\* it without a range check); the modulus of its wrap-around, scaled down
ScanIndexMod == 4

Callers == {"c1", "c2"}

\* PAN ids the MAC may hold when a scan is requested
PanIds == {1, 2}

\* channel numbers that a read of req->channels[] past numchan may yield
ChannelVals == {11, 12}

Stale == -1

(***************************************************************************)
(* Scan requests (struct ieee802154_scan_req_s) the callers draw from      *)
(***************************************************************************)
MkReq(t, pg, chs, n, d) ==
    [type |-> t, chpage |-> pg, channels |-> chs, numchan |-> n, duration |-> d]

NoReq == MkReq("None", 0, <<>>, 0, 0)

PassiveReqs ==
    { MkReq("Passive", 0, <<>>, 0, 0),
      MkReq("Passive", 0, <<12>>, 1, 0),
      MkReq("Passive", 2, <<12, 11>>, 2, 15) }

UnsupportedReqs ==
    { MkReq(t, 0, <<11>>, 1, 0) : t \in {"Active", "ED", "Orphan"} }

UnknownReqs == { MkReq("Other", 0, <<11>>, 1, 0) }

InvalidReqs ==
    { MkReq("Passive", 0, <<11>>, 1, 16),
      MkReq("Passive", 0, <<>>, 16, 0),
      MkReq("Active", 0, <<>>, -1, 0) }

Requests == PassiveReqs \cup UnsupportedReqs \cup UnknownReqs \cup InvalidReqs

\* the requests each caller draws from: c1 any of them, c2 (the caller that
\* competes with it) a Passive and an unsupported one
RequestsOf(p) ==
    IF p = "c1"
      THEN Requests
      ELSE { MkReq("Passive", 0, <<12>>, 1, 0), MkReq("Orphan", 0, <<11>>, 1, 0) }

VARIABLES
    pc,              \* caller -> position in mac802154_req_scan
    req,             \* caller -> the request of its call in progress, or of
                     \* its last call when that failed the argument check
    ret,             \* caller -> value returned by its last call
    opsem,           \* priv->opsem, semaphore count
    exclsem,         \* priv->exclsem, semaphore count
    curr_op,         \* priv->curr_op
    currscan,        \* priv->currscan
    scanindex,       \* priv->scanindex
    npandesc,        \* priv->npandesc
    panid,           \* priv->addr.panid
    panidbeforescan, \* priv->panidbeforescan
    chan,            \* radio channel
    chpage,          \* radio channel page
    rxenabled,       \* receiver state
    scansymdur,      \* priv->scansymdur
    timerPending,    \* a MAC timer is armed for mac802154_scantimeout
    timerDur,        \* duration the pending timer was started with
    wpc,             \* position of the timer worker
    wstatus,         \* status argument of mac802154_scanfinish
    notif,           \* notification under assembly in mac802154_scanfinish
    \* history variables
    panidAtAdmit,    \* PAN id when the current scan was admitted
    nsave,           \* writes of panidbeforescan since admission
    nrestore,        \* write-backs of panidbeforescan by the current
                     \* invocation of mac802154_scanfinish
    nfinish,         \* invocations of mac802154_scanfinish since admission
    owed,            \* notifications allocated by mac802154_scanfinish
                     \* less notifications handed to mac802154_notify
    trace            \* radio calls since admission, up to and including the
                     \* first one that departs from the request's channel list

vars == << pc, req, ret, opsem, exclsem, curr_op, currscan, scanindex, npandesc,
           panid, panidbeforescan, chan, chpage, rxenabled, scansymdur,
           timerPending, timerDur, wpc, wstatus, notif,
           panidAtAdmit, nsave, nrestore, nfinish, owed, trace >>

callerVars == << pc, req, ret >>
semVars == << opsem, exclsem >>
scanVars == << currscan, scanindex, npandesc, scansymdur >>
radioVars == << chan, chpage, rxenabled >>
panVars == << panid, panidbeforescan >>
timerVars == << timerPending, timerDur >>
workerVars == << wpc, wstatus, notif >>
histVars == << panidAtAdmit, nsave, nrestore, nfinish, owed, trace >>

NoNotif ==
    [type |-> "None", chpage |-> Stale, numunscanned |-> Stale,
     unscanned |-> <<>>, numdesc |-> Stale, status |-> "None"]

Init ==
    /\ pc = [p \in Callers |-> "idle"]
    /\ req = [p \in Callers |-> NoReq]
    /\ ret = [p \in Callers |-> "None"]
    /\ opsem = 1
    /\ exclsem = 1
    /\ curr_op = "NONE"
    /\ currscan = NoReq
    /\ scanindex = 0
    /\ npandesc = 0
    /\ panid \in PanIds
    /\ panidbeforescan = 0
    /\ chan = 11
    /\ chpage = 0
    /\ rxenabled = FALSE
    /\ scansymdur = 0
    /\ timerPending = FALSE
    /\ timerDur = 0
    /\ wpc = "idle"
    /\ wstatus = "None"
    /\ notif = NoNotif
    /\ panidAtAdmit = panid
    /\ nsave = 0
    /\ nrestore = 0
    /\ nfinish = 0
    /\ owed = 0
    /\ trace = <<>>


(***************************************************************************)
(* Helpers                                                                 *)
(***************************************************************************)

\* ValidArgs with the bound on numchan off by one
ValidArgsOffByOne(r) ==
    ~(r.duration > MaxDuration \/ r.numchan < 0 \/ r.numchan > MaxNumChan + 1)

\* line 90: the requests that pass the argument check
ValidArgs(r) ==
    ~(r.duration > MaxDuration \/ r.numchan < 0 \/ r.numchan > MaxNumChan)

\* SwitchType without the case for IEEE802154_SCANTYPE_ORPHAN
SwitchTypeNoOrphan(t) ==
    CASE t = "Passive" -> "OK"
      [] t = "Active" -> "ENOTTY"
      [] t = "ED" -> "ENOTTY"
      [] OTHER -> "EINVAL"

\* the switch on req->type (lines 125-183): the result each case leads to
SwitchType(t) ==
    CASE t = "Passive" -> "OK"
      [] t = "Active" -> "ENOTTY"
      [] t = "ED" -> "ENOTTY"
      [] t = "Orphan" -> "ENOTTY"
      [] OTHER -> "EINVAL"

\* the values a read of r.channels[i] (0-based) may yield: the entry the
\* caller listed, or, at or past numchan, whatever the memory holds
ChannelAt(r, i) ==
    IF i < Len(r.channels) THEN {r.channels[i + 1]} ELSE ChannelVals

\* ScanSymDur as the comment of lines 146-149 words it, 2 * n + 1
ScanSymDurLinear(d) == BaseSuperframeDuration * ((2 * d) + 1)

\* lines 154-155
ScanSymDur(d) == BaseSuperframeDuration * ((2 ^ d) + 1)

\* the radio calls a scan of n channels chs is to make: for each listed
\* channel in turn, set the channel, enable the receiver, disable the receiver
RECURSIVE RadioCalls(_, _)
RadioCalls(chs, n) ==
    IF n = 0 \/ chs = <<>>
      THEN <<>>
      ELSE << <<"ch", Head(chs)>>, <<"rx", 1>>, <<"rx", 0>> >>
             \o RadioCalls(Tail(chs), n - 1)

Expected(r) == RadioCalls(r.channels, r.numchan)

IsPrefix(s, t) == Len(s) <= Len(t) /\ s = SubSeq(t, 1, Len(s))

Record(ev) ==
    IF IsPrefix(trace, Expected(currscan)) THEN Append(trace, ev) ELSE trace

\* return from mac802154_req_scan with result code
Return(p, code) ==
    /\ pc' = [pc EXCEPT ![p] = "idle"]
    /\ ret' = [ret EXCEPT ![p] = code]
    /\ req' = [req EXCEPT ![p] = NoReq]

Goto(p, l) ==
    /\ pc' = [pc EXCEPT ![p] = l]
    /\ UNCHANGED << req, ret >>

(***************************************************************************)
(* mac802154_req_scan                                                      *)
(***************************************************************************)

\* the call, and lines 90-94: the argument check reads the request only
ReqScanValidate(p) ==
    /\ pc[p] = "idle"
    /\ \E r \in RequestsOf(p) :
          /\ req' = [req EXCEPT ![p] = r]
          /\ IF ValidArgs(r)
               THEN /\ pc' = [pc EXCEPT ![p] = "L100"]
                    /\ ret' = [ret EXCEPT ![p] = "None"]
               ELSE /\ pc' = pc
                    /\ ret' = [ret EXCEPT ![p] = "EINVAL"]
    /\ UNCHANGED << semVars, curr_op, scanVars, radioVars, panVars, timerVars,
                    workerVars, histVars >>

\* ReqScanTakeOpsem without the wait: the call goes on whether or not opsem
\* is available
ReqScanTakeOpsemNoWait(p) ==
    /\ pc[p] = "L100"
    /\ opsem' = opsem - 1
    /\ Goto(p, "L107")
    /\ UNCHANGED << exclsem, curr_op, scanVars, radioVars, panVars, timerVars,
                    workerVars, histVars >>

\* lines 100-105: wait for opsem; the wait may be interrupted
ReqScanTakeOpsem(p) ==
    /\ pc[p] = "L100"
    /\ \/ /\ opsem > 0
          /\ opsem' = opsem - 1
          /\ Goto(p, "L107")
       \/ /\ opsem <= 0
          /\ opsem' = opsem
          /\ Return(p, "EINTR")
    /\ UNCHANGED << exclsem, curr_op, scanVars, radioVars, panVars, timerVars,
                    workerVars, histVars >>

\* ReqScanSetOp without the assignment
ReqScanSkipSetOp(p) ==
    /\ pc[p] = "L107"
    /\ Goto(p, "L111")
    /\ UNCHANGED << semVars, curr_op, scanVars, radioVars, panVars, timerVars,
                    workerVars, histVars >>

\* line 107
ReqScanSetOp(p) ==
    /\ pc[p] = "L107"
    /\ curr_op' = "SCAN"
    /\ Goto(p, "L111")
    /\ UNCHANGED << semVars, scanVars, radioVars, panVars, timerVars,
                    workerVars, histVars >>

\* ReqScanTakeExclsem returning on interruption without giving opsem back
ReqScanTakeExclsemKeepOpsem(p) ==
    /\ pc[p] = "L111"
    /\ \/ /\ exclsem > 0
          /\ exclsem' = exclsem - 1
          /\ Goto(p, "L121")
       \/ /\ exclsem <= 0
          /\ exclsem' = exclsem
          /\ Return(p, "EINTR")
    /\ UNCHANGED << opsem, curr_op, scanVars, radioVars, panVars, timerVars,
                    workerVars, histVars >>

\* ReqScanTakeExclsem without the wait: the call goes on whether or not
\* exclsem is available
ReqScanTakeExclsemNoWait(p) ==
    /\ pc[p] = "L111"
    /\ exclsem' = exclsem - 1
    /\ Goto(p, "L121")
    /\ UNCHANGED << opsem, curr_op, scanVars, radioVars, panVars, timerVars,
                    workerVars, histVars >>

\* lines 111-117: wait for exclsem; when interrupted, give opsem back
ReqScanTakeExclsem(p) ==
    /\ pc[p] = "L111"
    /\ \/ /\ exclsem > 0
          /\ exclsem' = exclsem - 1
          /\ opsem' = opsem
          /\ Goto(p, "L121")
       \/ /\ exclsem <= 0
          /\ exclsem' = exclsem
          /\ opsem' = opsem + 1
          /\ Return(p, "EINTR")
    /\ UNCHANGED << curr_op, scanVars, radioVars, panVars, timerVars,
                    workerVars, histVars >>

\* lines 121-125 and the case labels: copy the request, reset the scan
\* state, dispatch on the type.  The history variables restart when a
\* Passive request is admitted.
ReqScanCopy(p) ==
    /\ pc[p] = "L121"
    /\ currscan' = req[p]
    /\ scanindex' = 0
    /\ npandesc' = 0
    /\ IF SwitchType(req[p].type) = "OK"
         THEN /\ Goto(p, "L131")
              /\ panidAtAdmit' = panid
              /\ nsave' = 0
              /\ nfinish' = 0
              /\ trace' = <<>>
         ELSE /\ pc' = [pc EXCEPT ![p] = "L189"]
              /\ ret' = [ret EXCEPT ![p] = SwitchType(req[p].type)]
              /\ req' = req
              /\ UNCHANGED << panidAtAdmit, nsave, nfinish, trace >>
    /\ UNCHANGED << semVars, curr_op, scansymdur, radioVars, panVars, timerVars,
                    workerVars, nrestore, owed >>

\* lines 131-132
ReqScanSetChannel(p) ==
    /\ pc[p] = "L131"
    /\ \E c \in ChannelAt(req[p], scanindex) :
          /\ chan' = c
          /\ trace' = Record(<<"ch", c>>)
    /\ chpage' = req[p].chpage
    /\ Goto(p, "L143")
    /\ UNCHANGED << semVars, curr_op, scanVars, rxenabled, panVars, timerVars,
                    workerVars, panidAtAdmit, nsave, nrestore, nfinish, owed >>

\* line 143
ReqScanSavePanid(p) ==
    /\ pc[p] = "L143"
    /\ panidbeforescan' = panid
    /\ nsave' = nsave + 1
    /\ Goto(p, "L144")
    /\ UNCHANGED << semVars, curr_op, scanVars, radioVars, panid, timerVars,
                    workerVars, panidAtAdmit, nrestore, nfinish, owed, trace >>

\* line 144
ReqScanSetPanid(p) ==
    /\ pc[p] = "L144"
    /\ panid' = PanIdUnspec
    /\ Goto(p, "L152")
    /\ UNCHANGED << semVars, curr_op, scanVars, radioVars, panidbeforescan,
                    timerVars, workerVars, histVars >>

\* line 152
ReqScanRxEnable(p) ==
    /\ pc[p] = "L152"
    /\ rxenabled' = TRUE
    /\ trace' = Record(<<"rx", 1>>)
    /\ Goto(p, "L154")
    /\ UNCHANGED << semVars, curr_op, scanVars, chan, chpage, panVars, timerVars,
                    workerVars, panidAtAdmit, nsave, nrestore, nfinish, owed >>

\* lines 154-156
ReqScanTimerStart(p) ==
    /\ pc[p] = "L154"
    /\ scansymdur' = ScanSymDur(req[p].duration)
    /\ timerPending' = TRUE
    /\ timerDur' = scansymdur'
    /\ Goto(p, "L185")
    /\ UNCHANGED << semVars, curr_op, currscan, scanindex, npandesc, radioVars,
                    panVars, workerVars, histVars >>

\* lines 185-186
ReqScanGiveExclsem(p) ==
    /\ pc[p] = "L185"
    /\ exclsem' = exclsem + 1
    /\ Return(p, "OK")
    /\ UNCHANGED << opsem, curr_op, scanVars, radioVars, panVars, timerVars,
                    workerVars, histVars >>

\* line 189
ReqScanErrGiveExclsem(p) ==
    /\ pc[p] = "L189"
    /\ exclsem' = exclsem + 1
    /\ Goto(p, "L190")
    /\ UNCHANGED << opsem, curr_op, scanVars, radioVars, panVars, timerVars,
                    workerVars, histVars >>

\* lines 190-192
ReqScanErrGiveOpsem(p) ==
    /\ pc[p] = "L190"
    /\ opsem' = opsem + 1
    /\ Return(p, ret[p])
    /\ UNCHANGED << exclsem, curr_op, scanVars, radioVars, panVars, timerVars,
                    workerVars, histVars >>

(***************************************************************************)
(* MAC timer: expiry hands mac802154_scantimeout to the worker             *)
(***************************************************************************)

TimerExpire ==
    /\ timerPending
    /\ wpc = "idle"
    /\ timerPending' = FALSE
    /\ wpc' = "L252"
    /\ UNCHANGED << callerVars, semVars, curr_op, scanVars, radioVars, panVars,
                    timerDur, wstatus, notif, histVars >>

(***************************************************************************)
(* mac802154_scantimeout                                                   *)
(***************************************************************************)

\* line 252: DEBUGASSERT(priv->curr_op == MAC802154_OP_SCAN)
ScanTimeoutCheckOp ==
    /\ wpc = "L252"
    /\ wpc' = IF curr_op = "SCAN" THEN "L256" ELSE "panic"
    /\ UNCHANGED << callerVars, semVars, curr_op, scanVars, radioVars, panVars,
                    timerVars, wstatus, notif, histVars >>

\* line 256
ScanTimeoutRxDisable ==
    /\ wpc = "L256"
    /\ rxenabled' = FALSE
    /\ trace' = Record(<<"rx", 0>>)
    /\ wpc' = "L257"
    /\ UNCHANGED << callerVars, semVars, curr_op, scanVars, chan, chpage, panVars,
                    timerVars, wstatus, notif,
                    panidAtAdmit, nsave, nrestore, nfinish, owed >>

\* ScanTimeoutIncrement without the increment
ScanTimeoutNoIncrement ==
    /\ wpc = "L257"
    /\ wpc' = "L261"
    /\ UNCHANGED << callerVars, semVars, curr_op, scanVars, radioVars, panVars,
                    timerVars, wstatus, notif, histVars >>

\* line 257
ScanTimeoutIncrement ==
    /\ wpc = "L257"
    /\ scanindex' = (scanindex + 1) % ScanIndexMod
    /\ wpc' = "L261"
    /\ UNCHANGED << callerVars, semVars, curr_op, currscan, npandesc, scansymdur,
                    radioVars, panVars, timerVars, wstatus, notif, histVars >>

\* line 261: was this the last channel to scan
LastChannel == scanindex = currscan.numchan

\* FinishStatus with the two outcomes exchanged
FinishStatusInverted == IF npandesc > 0 THEN "NO_BEACON" ELSE "SUCCESS"

\* lines 263-270: the status the scan is finished with
FinishStatus == IF npandesc > 0 THEN "SUCCESS" ELSE "NO_BEACON"

\* lines 261-272
ScanTimeoutCheckLast ==
    /\ wpc = "L261"
    /\ IF LastChannel
         THEN /\ wstatus' = FinishStatus
              /\ wpc' = "L204"
         ELSE /\ wstatus' = wstatus
              /\ wpc' = "L274"
    /\ UNCHANGED << callerVars, semVars, curr_op, scanVars, radioVars, panVars,
                    timerVars, notif, histVars >>

\* line 274
ScanTimeoutSetChannel ==
    /\ wpc = "L274"
    /\ \E c \in ChannelAt(currscan, scanindex) :
          /\ chan' = c
          /\ trace' = Record(<<"ch", c>>)
    /\ wpc' = "L282"
    /\ UNCHANGED << callerVars, semVars, curr_op, scanVars, chpage, rxenabled,
                    panVars, timerVars, wstatus, notif,
                    panidAtAdmit, nsave, nrestore, nfinish, owed >>

\* line 282
ScanTimeoutRxEnable ==
    /\ wpc = "L282"
    /\ rxenabled' = TRUE
    /\ trace' = Record(<<"rx", 1>>)
    /\ wpc' = "L283"
    /\ UNCHANGED << callerVars, semVars, curr_op, scanVars, chan, chpage, panVars,
                    timerVars, wstatus, notif,
                    panidAtAdmit, nsave, nrestore, nfinish, owed >>

\* line 283
ScanTimeoutTimerStart ==
    /\ wpc = "L283"
    /\ timerPending' = TRUE
    /\ timerDur' = scansymdur
    /\ wpc' = "idle"
    /\ UNCHANGED << callerVars, semVars, curr_op, scanVars, radioVars, panVars,
                    wstatus, notif, histVars >>

(***************************************************************************)
(* mac802154_scanfinish                                                    *)
(***************************************************************************)

\* ScanFinishTakeExclsem without the semaphore taken
ScanFinishSkipExclsem ==
    /\ wpc = "L204"
    /\ \E n \in {0, Stale} :
          notif' = [NoNotif EXCEPT !.type = "Stale", !.status = "Stale",
                                   !.numunscanned = n]
    /\ nfinish' = nfinish + 1
    /\ nrestore' = 0
    /\ owed' = owed + 1
    /\ wpc' = "L207"
    /\ UNCHANGED << callerVars, semVars, curr_op, scanVars, radioVars, panVars,
                    timerVars, wstatus, panidAtAdmit, nsave, trace >>

\* lines 204-205: wait for exclsem (not interruptible), allocate the
\* notification; the allocated structure is not initialised
ScanFinishTakeExclsem ==
    /\ wpc = "L204"
    /\ exclsem > 0
    /\ exclsem' = exclsem - 1
    /\ \E n \in {0, Stale} :
          notif' = [NoNotif EXCEPT !.type = "Stale", !.status = "Stale",
                                   !.numunscanned = n]
    /\ nfinish' = nfinish + 1
    /\ nrestore' = 0
    /\ owed' = owed + 1
    /\ wpc' = "L207"
    /\ UNCHANGED << callerVars, opsem, curr_op, scanVars, radioVars, panVars,
                    timerVars, wstatus, panidAtAdmit, nsave, trace >>

\* line 207
ScanFinishSetOp ==
    /\ wpc = "L207"
    /\ curr_op' = "NONE"
    /\ wpc' = "L208"
    /\ UNCHANGED << callerVars, semVars, scanVars, radioVars, panVars, timerVars,
                    wstatus, notif, histVars >>

\* ScanFinishGiveOpsem put off: opsem is not given back at line 208
ScanFinishKeepOpsem ==
    /\ wpc = "L208"
    /\ wpc' = "L210"
    /\ UNCHANGED << callerVars, semVars, curr_op, scanVars, radioVars, panVars,
                    timerVars, wstatus, notif, histVars >>

\* line 208
ScanFinishGiveOpsem ==
    /\ wpc = "L208"
    /\ opsem' = opsem + 1
    /\ wpc' = "L210"
    /\ UNCHANGED << callerVars, exclsem, curr_op, scanVars, radioVars, panVars,
                    timerVars, wstatus, notif, histVars >>

\* lines 210-212
ScanFinishFillType ==
    /\ wpc = "L210"
    /\ notif' = [notif EXCEPT !.type = currscan.type, !.chpage = currscan.chpage]
    /\ wpc' = "L216"
    /\ UNCHANGED << callerVars, semVars, curr_op, scanVars, radioVars, panVars,
                    timerVars, wstatus, histVars >>

\* lines 216-221: the channels that did not get scanned
ScanFinishUnscanned ==
    /\ wpc = "L216"
    /\ IF scanindex # currscan.numchan
         THEN notif' = [notif EXCEPT
                  !.numunscanned = currscan.numchan - scanindex,
                  !.unscanned =
                      IF scanindex < currscan.numchan
                         /\ currscan.numchan <= Len(currscan.channels)
                        THEN SubSeq(currscan.channels, scanindex + 1,
                                    currscan.numchan)
                        ELSE <<>>]
         ELSE notif' = notif
    /\ wpc' = "L223"
    /\ UNCHANGED << callerVars, semVars, curr_op, scanVars, radioVars, panVars,
                    timerVars, wstatus, histVars >>

\* ScanFinishDescs followed at once by the hand-over of line 234, before the
\* status is set and the PAN id restored
ScanFinishDescsNotify ==
    /\ wpc = "L223"
    /\ notif' = [notif EXCEPT !.numdesc = npandesc]
    /\ wpc' = "L234"
    /\ UNCHANGED << callerVars, semVars, curr_op, scanVars, radioVars, panVars,
                    timerVars, wstatus, histVars >>

\* lines 223-225
ScanFinishDescs ==
    /\ wpc = "L223"
    /\ notif' = [notif EXCEPT !.numdesc = npandesc]
    /\ wpc' = "L226"
    /\ UNCHANGED << callerVars, semVars, curr_op, scanVars, radioVars, panVars,
                    timerVars, wstatus, histVars >>

\* line 226
ScanFinishStatus ==
    /\ wpc = "L226"
    /\ notif' = [notif EXCEPT !.status = wstatus]
    /\ wpc' = "L230"
    /\ UNCHANGED << callerVars, semVars, curr_op, scanVars, radioVars, panVars,
                    timerVars, wstatus, histVars >>

\* ScanFinishSetPanid writing the wildcard instead of the saved PAN id
ScanFinishSetPanidUnspec ==
    /\ wpc = "L230"
    /\ panid' = PanIdUnspec
    /\ nrestore' = nrestore + 1
    /\ wpc' = "L232"
    /\ UNCHANGED << callerVars, semVars, curr_op, scanVars, radioVars,
                    panidbeforescan, timerVars, wstatus, notif,
                    panidAtAdmit, nsave, nfinish, owed, trace >>

\* line 230
ScanFinishSetPanid ==
    /\ wpc = "L230"
    /\ panid' = panidbeforescan
    /\ nrestore' = nrestore + 1
    /\ wpc' = "L232"
    /\ UNCHANGED << callerVars, semVars, curr_op, scanVars, radioVars,
                    panidbeforescan, timerVars, wstatus, notif,
                    panidAtAdmit, nsave, nfinish, owed, trace >>

\* line 232; the record of the scan's radio calls ends here
ScanFinishGiveExclsem ==
    /\ wpc = "L232"
    /\ exclsem' = exclsem + 1
    /\ trace' = <<>>
    /\ wpc' = "L234"
    /\ UNCHANGED << callerVars, opsem, curr_op, scanVars, radioVars, panVars,
                    timerVars, wstatus, notif,
                    panidAtAdmit, nsave, nrestore, nfinish, owed >>

\* line 234: hand the notification over; the worker is done
ScanFinishNotify ==
    /\ wpc = "L234"
    /\ owed' = owed - 1
    /\ notif' = NoNotif
    /\ wstatus' = "None"
    /\ wpc' = "idle"
    /\ UNCHANGED << callerVars, semVars, curr_op, scanVars, radioVars, panVars,
                    timerVars, panidAtAdmit, nsave, nrestore, nfinish, trace >>

(***************************************************************************)
(* Frame reception: a beacon received (the receiver is enabled) during a   *)
(* scan adds a PAN descriptor, under exclsem                               *)
(***************************************************************************)

Beacon ==
    /\ exclsem > 0
    /\ rxenabled
    /\ curr_op = "SCAN"
    /\ npandesc < MaxDesc
    /\ npandesc' = npandesc + 1
    /\ UNCHANGED << callerVars, semVars, curr_op, currscan, scanindex, scansymdur,
                    radioVars, panVars, timerVars, workerVars, histVars >>

(***************************************************************************)
(* Specification                                                           *)
(***************************************************************************)

Caller(p) ==
    \/ ReqScanValidate(p)
    \/ ReqScanTakeOpsem(p)
    \/ ReqScanSetOp(p)
    \/ ReqScanTakeExclsem(p)
    \/ ReqScanCopy(p)
    \/ ReqScanSetChannel(p)
    \/ ReqScanSavePanid(p)
    \/ ReqScanSetPanid(p)
    \/ ReqScanRxEnable(p)
    \/ ReqScanTimerStart(p)
    \/ ReqScanGiveExclsem(p)
    \/ ReqScanErrGiveExclsem(p)
    \/ ReqScanErrGiveOpsem(p)

\* the steps of mac802154_req_scan after the call was made
CallerRun(p) ==
    \/ ReqScanTakeOpsem(p)
    \/ ReqScanSetOp(p)
    \/ ReqScanTakeExclsem(p)
    \/ ReqScanCopy(p)
    \/ ReqScanSetChannel(p)
    \/ ReqScanSavePanid(p)
    \/ ReqScanSetPanid(p)
    \/ ReqScanRxEnable(p)
    \/ ReqScanTimerStart(p)
    \/ ReqScanGiveExclsem(p)
    \/ ReqScanErrGiveExclsem(p)
    \/ ReqScanErrGiveOpsem(p)

Worker ==
    \/ TimerExpire
    \/ ScanTimeoutCheckOp
    \/ ScanTimeoutRxDisable
    \/ ScanTimeoutIncrement
    \/ ScanTimeoutCheckLast
    \/ ScanTimeoutSetChannel
    \/ ScanTimeoutRxEnable
    \/ ScanTimeoutTimerStart
    \/ ScanFinishTakeExclsem
    \/ ScanFinishSetOp
    \/ ScanFinishGiveOpsem
    \/ ScanFinishFillType
    \/ ScanFinishUnscanned
    \/ ScanFinishDescs
    \/ ScanFinishStatus
    \/ ScanFinishSetPanid
    \/ ScanFinishGiveExclsem
    \/ ScanFinishNotify

Next ==
    \/ \E p \in Callers : Caller(p)
    \/ Worker
    \/ Beacon

Spec == Init /\ [][Next]_vars

\* Every armed timer fires and the worker runs; a call in progress runs
\* on when it can (no interruption of a wait is ever forced).
Fairness ==
    /\ WF_vars(Worker)
    /\ \A p \in Callers : WF_vars(CallerRun(p) /\ ret'[p] # "EINTR")

FairSpec == Spec /\ Fairness

(***************************************************************************)
(* Properties                                                              *)
(***************************************************************************)

TimeoutPcs == {"L252", "L256", "L257", "L261", "L274", "L282", "L283"}

\* positions of mac802154_req_scan on the Passive path, before the timer runs
PassivePcs == {"L131", "L143", "L144", "L152", "L154"}

\* positions of mac802154_req_scan at which the caller has taken opsem
PastOpsemPcs == {"L107", "L111", "L121", "L189", "L190"} \cup PassivePcs

\* a Passive scan is under way and has not given opsem back: from the start
\* of its first timer to line 208 of its mac802154_scanfinish
ScanRunning ==
    timerPending \/ wpc \in TimeoutPcs \cup {"L204", "L207", "L208"}

\* no call, no timer and no handler is in progress
Quiescent ==
    /\ \A p \in Callers : pc[p] = "idle"
    /\ wpc = "idle"
    /\ ~timerPending

\* C1: for every admitted scan the PAN id after the restore in
\* mac802154_scanfinish is the PAN id the MAC had when the scan was admitted
\* (both semaphores taken, request copied); panidbeforescan is written once
\* per scan, before the scan finishes, and written back once per finish.
C1_PanIdRestored ==
    /\ nsave <= 1
    /\ nrestore <= 1
    /\ nfinish <= 1
    /\ wpc \in {"L207", "L208", "L210", "L216", "L223", "L226", "L230"}
          => nsave = 1 /\ nrestore = 0 /\ panidbeforescan = panidAtAdmit
    /\ wpc = "L232" => nsave = 1 /\ nrestore = 1 /\ panid = panidAtAdmit
    /\ Quiescent => panid = panidAtAdmit

C1_Witness ==
    /\ wpc = "L232"
    /\ nrestore = 1
    /\ panid = panidAtAdmit
    /\ panid # PanIdUnspec
    /\ \E q \in Callers : pc[q] = "L111"

\* C2: while a Passive scan is under way no other call is past the wait for
\* opsem, and from the scan's admission until mac802154_scanfinish has read
\* currscan, scanindex and npandesc into the notification no call changes
\* them: currscan stays as admitted, scanindex moves only at line 257,
\* npandesc only grows.
C2_SecondRequestWaits ==
    /\ [](ScanRunning => \A q \in Callers : pc[q] \notin PastOpsemPcs)
    /\ [](Cardinality({q \in Callers : pc[q] \in PastOpsemPcs \cup {"L185"}}) <= 1)
    /\ [][ (ScanRunning \/ wpc \in {"L210", "L216", "L223"})
             => /\ currscan' = currscan
                /\ scanindex' # scanindex => wpc = "L257"
                /\ npandesc' >= npandesc ]_vars

C2_Witness ==
    /\ wpc = "L216"
    /\ \E q \in Callers : pc[q] = "L111" /\ req[q].type = "Passive"
    /\ currscan.type = "Passive"
    /\ scanindex = currscan.numchan

\* a Passive scan is admitted and has not yet entered mac802154_scanfinish
ScanInProgress ==
    \/ \E p \in Callers : pc[p] \in PassivePcs \cup {"L185"}
    \/ timerPending
    \/ wpc \in TimeoutPcs

\* C3: (as claimed) between admission and finalize the radio calls of a
\* Passive scan of N channels are exactly, for channels[0] .. channels[N-1]
\* in request order, set-channel, receiver-enable, receiver-disable: at every
\* moment of the scan the calls made are a prefix of that sequence, and when
\* mac802154_scanfinish is entered they are the whole of it.
C3_ChannelOrder ==
    /\ ScanInProgress => IsPrefix(trace, Expected(currscan))
    /\ wpc = "L204" => trace = Expected(currscan)

macVars ==
    << opsem, exclsem, curr_op, currscan, scanindex, npandesc, panid,
       panidbeforescan, chan, chpage, rxenabled, scansymdur, timerPending,
       timerDur >>

\* C6: a call whose duration is above 15 or whose numchan is outside 0..15
\* returns EINVAL at once, takes no semaphore and leaves the MAC state as it
\* was, whatever that state is.
C6_InvalidArgsRejected ==
    [][ \A p \in Callers :
          ( /\ pc[p] = "idle"
            /\ << pc[p], req[p], ret[p] >>' # << pc[p], req[p], ret[p] >>
            /\ (req'[p].duration > 15 \/ req'[p].numchan \notin 0 .. 15) )
          => /\ pc'[p] = "idle"
             /\ ret'[p] = "EINVAL"
             /\ UNCHANGED macVars ]_vars

C6_Witness ==
    /\ \E p \in Callers :
          /\ pc[p] = "idle"
          /\ ret[p] = "EINVAL"
          /\ req[p].numchan = 16
    /\ timerPending
    /\ curr_op = "SCAN"
    /\ opsem = 0

\* C7: (as claimed) once a call has returned ENOTTY (Active, ED, Orphan) or
\* EINVAL for an unrecognised type, with nothing else in progress, curr_op
\* is NONE.
C7_EarlyExitStaysIdle ==
    \A p \in Callers :
       ( /\ Quiescent
         /\ \/ ret[p] = "ENOTTY"
            \/ ret[p] = "EINVAL" /\ req[p] = NoReq )
       => curr_op = "NONE"

\* C8: a call of type Active, ED or Orphan returns ENOTTY and one of
\* unrecognised type EINVAL (unless a wait was interrupted); it gives
\* exclsem back (line 189), then opsem (line 190), and none of its steps
\* changes the radio channel or page, the PAN id, panidbeforescan, the
\* receiver state or the timer.
C8_UnsupportedNoEffect ==
    [][ \A p \in Callers :
          ( /\ pc[p] # "idle"
            /\ pc'[p] # pc[p]
            /\ req[p].type # "Passive" )
          => /\ UNCHANGED << chan, chpage, panid, panidbeforescan, rxenabled,
                             timerPending, timerDur >>
             /\ pc[p] = "L121" => pc'[p] = "L189"
             /\ pc[p] = "L189"
                   => pc'[p] = "L190" /\ exclsem' = exclsem + 1 /\ opsem' = opsem
             /\ pc[p] = "L190"
                   => /\ pc'[p] = "idle"
                      /\ opsem' = opsem + 1
                      /\ exclsem' = exclsem
                      /\ opsem' = 1 /\ exclsem' = 1
                      /\ ret'[p] = IF req[p].type \in {"Active", "ED", "Orphan"}
                                     THEN "ENOTTY" ELSE "EINVAL" ]_vars

C8_Witness ==
    /\ \E p \in Callers : pc[p] = "idle" /\ ret[p] = "ENOTTY"
    /\ \E p \in Callers : pc[p] = "idle" /\ ret[p] = "EINVAL" /\ req[p] = NoReq
    /\ opsem = 1
    /\ exclsem = 1
    /\ panidbeforescan = 0
    /\ ~timerPending

\* C9: (as claimed) throughout an admitted scan 0 <= scanindex <= numchan;
\* scanindex is 0 at admission, grows by one at each channel timeout, and
\* nothing else changes it before mac802154_scanfinish.
C9_ScanIndexBounded ==
    ScanInProgress => 0 <= scanindex /\ scanindex <= currscan.numchan

\* C10: (as claimed) between operations curr_op = SCAN implies that opsem is
\* held for that scan.
C10_ScanHoldsOpsem ==
    ( /\ \A p \in Callers : pc[p] = "idle"
      /\ wpc = "idle" )
    => (curr_op = "SCAN" => opsem = 0)

\* positions of mac802154_scanfinish at which the worker holds exclsem
FinishLockedPcs == {"L207", "L208", "L210", "L216", "L223", "L226", "L230", "L232"}

\* C11: the test of line 261 sends the handler into mac802154_scanfinish
\* exactly when the increment has brought scanindex to numchan, with status
\* SUCCESS if npandesc > 0 at that moment and NO_BEACON otherwise; a timeout
\* that leaves scanindex below numchan goes on to the next channel and starts
\* no finish.  The status and the descriptor count handed over agree.
C11_StatusByDescriptors ==
    /\ [][ (wpc = "L261" /\ wpc' # wpc)
             => IF scanindex = currscan.numchan
                  THEN /\ wpc' = "L204"
                       /\ wstatus' = IF npandesc > 0 THEN "SUCCESS" ELSE "NO_BEACON"
                  ELSE /\ wpc' = "L274"
                       /\ nfinish' = nfinish ]_vars
    /\ [](wpc \in {"L204"} \cup FinishLockedPcs
             => /\ scanindex = currscan.numchan
                /\ wstatus = IF npandesc > 0 THEN "SUCCESS" ELSE "NO_BEACON")
    /\ [](wpc \in {"L274", "L282", "L283"} => nfinish = 0)
    /\ [](wpc = "L234"
             => notif.status = IF notif.numdesc > 0 THEN "SUCCESS" ELSE "NO_BEACON")

C11_Witness ==
    /\ wpc = "L226"
    /\ wstatus = "SUCCESS"
    /\ npandesc > 0
    /\ currscan.numchan = 2
    /\ scanindex = 2
    /\ trace = Expected(currscan)

\* C12: (as claimed) once mac802154_scanfinish has assembled the notification
\* (exclsem still held): if scanindex < numchan the unscanned count is
\* numchan - scanindex and the unscanned list is channels[scanindex .. numchan),
\* otherwise the unscanned count is zero; type and page are those of
\* currscan and the descriptor count is npandesc.
C12_OutcomeFields ==
    wpc \in {"L230", "L232"}
       => /\ IF scanindex < currscan.numchan
               THEN /\ notif.numunscanned = currscan.numchan - scanindex
                    /\ notif.unscanned = SubSeq(currscan.channels, scanindex + 1,
                                                currscan.numchan)
               ELSE notif.numunscanned = 0
          /\ notif.type = currscan.type
          /\ notif.chpage = currscan.chpage
          /\ notif.numdesc = npandesc

\* largest value of a signed 32-bit integer
Int32Max == (2 ^ 30 - 1) + 2 ^ 30

C14_InterruptedWaits ==
    [][ \A p \in Callers :
          /\ (pc[p] = "L100" /\ pc'[p] = "idle")
                => /\ ret'[p] = "EINTR"
                   /\ opsem <= 0
                   /\ UNCHANGED macVars
          /\ (pc[p] = "L111" /\ pc'[p] = "idle")
                => /\ ret'[p] = "EINTR"
                   /\ exclsem <= 0
                   /\ opsem' = opsem + 1
                   /\ curr_op = "SCAN" /\ curr_op' = "SCAN"
                   /\ UNCHANGED << exclsem, currscan, scanindex, npandesc,
                                   scansymdur, chan, chpage, rxenabled, panid,
                                   panidbeforescan, timerPending, timerDur >>
          /\ (pc[p] \in {"L100", "L107"} /\ pc'[p] # pc[p])
                => UNCHANGED << exclsem, currscan, scanindex, npandesc,
                                scansymdur, chan, chpage, rxenabled, panid,
                                panidbeforescan, timerPending, timerDur >> ]_vars

C14_Witness ==
    /\ \A p \in Callers : pc[p] = "idle"
    /\ \E p \in Callers : ret[p] = "EINTR"
    /\ wpc \in FinishLockedPcs
    /\ curr_op = "SCAN"
    /\ opsem = 1

\* C15: the DEBUGASSERT of line 252 never fails: whenever a timer is pending
\* and all through mac802154_scantimeout, up to line 207 of the
\* mac802154_scanfinish it calls, curr_op is SCAN, whatever calls of
\* mac802154_req_scan have been made and however they returned.
C15_TimeoutInScan ==
    /\ wpc # "panic"
    /\ (timerPending \/ wpc \in TimeoutPcs \cup {"L204", "L207"})
          => curr_op = "SCAN"

C15_Witness ==
    /\ wpc = "L256"
    /\ curr_op = "SCAN"
    /\ scanindex = 1
    /\ currscan.numchan = 2
    /\ \E p \in Callers : ret[p] = "ENOTTY"
    /\ \E p \in Callers : pc[p] = "L100"

\* C16: (as claimed) every step that changes scanindex, panidbeforescan, the
\* descriptor count, the radio channel or page, or the PAN id is taken with
\* exclsem held (the reception path takes and gives exclsem within its one
\* step), and scanindex changes only at line 257 of the timeout handler.
C16_MutationsUnderExclsem ==
    [][ /\ ( \/ scanindex' # scanindex
             \/ panidbeforescan' # panidbeforescan
             \/ (npandesc' # npandesc /\ ~Beacon)
             \/ chan' # chan
             \/ chpage' # chpage
             \/ panid' # panid )
           => exclsem = 0
        /\ scanindex' # scanindex => wpc = "L257" ]_vars

\* C17: mac802154_scanfinish takes exclsem first (line 204) and holds it to
\* line 232; it sets curr_op to NONE (line 207) and gives opsem (line 208)
\* while nothing of the notification has been filled in and the PAN id has
\* not been written back; it writes the PAN id back (line 230) with exclsem
\* held and the notification complete; it gives exclsem (line 232) before it
\* hands the notification over (line 234).
C17_FinishOrder ==
    /\ [](wpc \in FinishLockedPcs => exclsem = 0)
    /\ [][ /\ (wpc = "L204" /\ wpc' # wpc)
                => wpc' = "L207" /\ exclsem' = exclsem - 1 /\ UNCHANGED << curr_op, opsem >>
           /\ (wpc = "L207" /\ wpc' # wpc)
                => /\ curr_op' = "NONE"
                   /\ wpc' = "L208"
           /\ (wpc = "L208" /\ wpc' # wpc)
                => /\ opsem' = opsem + 1
                   /\ curr_op = "NONE"
                   /\ notif.type = "Stale" /\ notif.status = "Stale"
                   /\ notif.chpage = Stale /\ notif.numdesc = Stale
                   /\ nrestore = 0
                   /\ panid = PanIdUnspec
           /\ (notif' # notif /\ wpc \in FinishLockedPcs)
                => opsem' = opsem /\ curr_op' = curr_op /\ wpc \in {"L210", "L216", "L223", "L226"}
           /\ nrestore' = nrestore + 1
                => /\ wpc = "L230"
                   /\ exclsem = 0 /\ exclsem' = 0
                   /\ notif.status \in {"SUCCESS", "NO_BEACON"}
           /\ (wpc = "L232" /\ wpc' # wpc)
                => exclsem' = exclsem + 1 /\ owed' = owed /\ nrestore = 1
           /\ owed' < owed => wpc = "L234" ]_vars

C17_Witness ==
    /\ wpc = "L230"
    /\ exclsem = 0
    /\ nrestore = 0
    /\ panid = PanIdUnspec
    /\ curr_op = "SCAN"
    /\ \E q \in Callers : pc[q] = "L111" /\ req[q].type = "Passive"

\* the step of line 156, and the step of line 283, that start a channel timer
ArmAtAdmission == \E p \in Callers : pc[p] = "L154" /\ pc'[p] = "L185"

ArmInHandler == wpc = "L283" /\ wpc' = "idle"

\* the steps of mac802154_scanfinish that read currscan, scanindex, npandesc
FinishReads == wpc \in {"L210", "L216", "L223"} /\ wpc' # wpc

\* C18 as claimed: exclsem is held when the request is copied into currscan
\* and while mac802154_scanfinish reads the scan state, and exclsem is not
\* held when a channel timer is started, neither at admission (line 156) nor
\* in the timeout handler (line 283).
C18_LockFreeAtArming ==
    [][ /\ currscan' # currscan => exclsem = 0
        /\ FinishReads => exclsem = 0
        /\ ArmAtAdmission => exclsem > 0
        /\ ArmInHandler => exclsem > 0 ]_vars

\* C18, amended: exclsem is held when the request is copied into currscan
\* and while mac802154_scanfinish reads the scan state; the timeout handler
\* starts the next channel timer without holding exclsem (no one holds it
\* then, unless the admitting call has not yet run its line 185); at
\* admission the first timer is started while the admitting call still holds
\* exclsem, which it gives back in its next step (line 185), returning OK.
C18_LockAtArming ==
    [][ /\ currscan' # currscan => exclsem = 0
        /\ FinishReads => exclsem = 0
        /\ ArmAtAdmission => exclsem = 0 /\ exclsem' = 0 /\ timerPending'
        /\ ArmInHandler => exclsem > 0 \/ \E p \in Callers : pc[p] = "L185"
        /\ \A p \in Callers :
              (pc[p] = "L185" /\ pc'[p] # pc[p])
                 => exclsem' = exclsem + 1 /\ pc'[p] = "idle" /\ ret'[p] = "OK" ]_vars

C18_Witness ==
    /\ \E p \in Callers : pc[p] = "L185"
    /\ timerPending
    /\ exclsem = 0
    /\ opsem = 0
    /\ scanindex = 0

\* C19: a Passive call that was let through by line 208 of the previous
\* scan's mac802154_scanfinish still waits for exclsem until line 232, so
\* the PAN id it saves at line 143 is the one line 230 wrote back, never the
\* wildcard: the PAN id at every admission is the PAN id at the first one,
\* and after any chain of scans, with nothing in progress, the PAN id is
\* that same value.
C19_ChainedScansKeepPanid ==
    /\ [](panidbeforescan # PanIdUnspec)
    /\ [](panidAtAdmit \in PanIds)
    /\ [](nsave = 1 => panidbeforescan = panidAtAdmit)
    /\ [][panidAtAdmit' = panidAtAdmit]_vars
    /\ [](Quiescent => panid = panidAtAdmit)

C19_Witness ==
    /\ wpc = "L234"
    /\ \E q \in Callers : pc[q] = "L144" /\ req[q].type = "Passive"
    /\ nsave = 1
    /\ panidbeforescan \in PanIds
    /\ panid = panidbeforescan

\* between operations: no call and no handler is running
BetweenOperations ==
    /\ \A p \in Callers : pc[p] = "idle"
    /\ wpc = "idle"

\* C20: (as claimed) no timer is started while one is pending; between
\* operations a timer is pending exactly when a Passive scan is in progress
\* (curr_op SCAN, opsem held) with scanindex < numchan, the receiver is on
\* only if a timer is pending, and the PAN id is the wildcard while a timer
\* is pending; once mac802154_scanfinish has run, and until the next
\* admission, no timer is pending and the receiver is off.
C20_TimerPendingIffScanning ==
    /\ [][(ArmAtAdmission \/ ArmInHandler) => ~timerPending]_vars
    /\ [](BetweenOperations
             => /\ timerPending <=> ( /\ curr_op = "SCAN"
                                      /\ opsem = 0
                                      /\ currscan.type = "Passive"
                                      /\ scanindex < currscan.numchan )
                /\ rxenabled => timerPending)
    /\ [](timerPending => panid = PanIdUnspec)
    /\ [](wpc \in FinishLockedPcs => ~timerPending /\ ~rxenabled)
    /\ [](BetweenOperations /\ opsem = 1 => ~timerPending /\ ~rxenabled)

=============================================================================
